---- MODULE Spec2Model ----
(***************************************************************************)
(* Model of trackman's workflow engine (src/utils/spinner.go):             *)
(*   - Spinner.Run: runs one process and pushes its lifecycle events;      *)
(*   - Workflow.Run (concurrent): the selection loop, the gatekeeper       *)
(*     semaphore, the dispatched goroutines and the joiner wait group.     *)
(* The Step type (status, shouldRun, isDone, MarkAs*, Step.Run) is used by *)
(* Workflow.Run and defined outside spinner.go; it follows section 4.1 of  *)
(* the specification, with Step.Run deciding the status from the error     *)
(* Spinner.Run returns.                                                    *)
(***************************************************************************)
EXTENDS Integers, Sequences, FiniteSets, TLC

(* ------------------------------ bounds -------------------------------- *)

\* number of steps declared in the workflow document
NumSteps == 2

\* largest configured concurrency (WorkflowOptions.Concurrency)
MaxConcurrency == 2

Steps == 1..NumSteps

\* "no step": the nil *Step returned by nextToRun
NoStep == 0

(* ---------------------------- step status ------------------------------ *)

Idle == "Idle"
Pending == "Pending"
Running == "Running"
Success == "Success"
Failed == "Failed"

Statuses == {Idle, Pending, Running, Success, Failed}

(* ------------------------------ events --------------------------------- *)

EventRunRequested == "RunRequested"
EventRunStarted == "RunStarted"
EventRunError == "RunError"
EventRunFail == "RunFail"
EventRunWaitError == "RunWaitError"
EventRunTimeout == "RunTimeout"
EventRunSuccess == "RunSuccess"

TerminalEvents ==
  {EventRunFail, EventRunWaitError, EventRunSuccess, EventRunTimeout}

(* ----------------------- process outcomes (inputs) --------------------- *)

\* what cmd.Wait() returns: nil, an *exec.ExitError, or another error
WaitNil == "exit0"
WaitExitError == "exitNonZero"
WaitOtherError == "waitError"

WaitResults == {WaitNil, WaitExitError, WaitOtherError}

\* One process run, as the runner observes it: whether cmd.Start() worked,
\* what cmd.Wait() returned, and whether ctx.Err() is DeadlineExceeded when
\* line 84 reads it.
Outcomes ==
  [launched : {FALSE}, wait : {WaitNil}, deadline : {FALSE}]
    \cup [launched : {TRUE}, wait : WaitResults, deadline : BOOLEAN]

LaunchFailure == [launched |-> FALSE, wait |-> WaitNil, deadline |-> FALSE]
CleanExit == [launched |-> TRUE, wait |-> WaitNil, deadline |-> FALSE]

NoOutcome == [launched |-> FALSE, wait |-> "none", deadline |-> FALSE]

(* ------------------------------ errors --------------------------------- *)

NilError == "nil"
LaunchError == "launchError"
\* the typed nil *exec.ExitError of line 80: a non-nil error interface value
\* that holds a nil pointer, not the error cmd.Wait() produced
NilExitError == "nilExitError"
\* the error cmd.Wait() produced when it is not an *exec.ExitError
WaitFailure == "waitFailure"
DeadlineExceeded == "deadlineExceeded"
ContextError == "contextError"
\* errors.New("bad command") of NewSpinner, line 40
BadCommand == "bad command"
NoReturn == "none"

(* --------------------------- Spinner.Run ------------------------------- *)

\* Events pushed by lines 53-68: RunRequested, then RunError or RunStarted.
SpinnerLaunchEvents(o) ==
  IF o.launched
    THEN <<EventRunRequested, EventRunStarted>>
    ELSE <<EventRunRequested, EventRunError>>

\* Events pushed by lines 70-92, after the process was started.
SpinnerWaitEvents(o) ==
  IF o.wait = WaitOtherError
    THEN <<EventRunWaitError>>
    ELSE (IF o.wait = WaitExitError THEN <<EventRunFail>> ELSE <<>>)
           \o (IF o.deadline THEN <<EventRunTimeout>> ELSE <<EventRunSuccess>>)

\* All events pushed by one call of Spinner.Run.
SpinnerEvents(o) ==
  IF o.launched
    THEN SpinnerLaunchEvents(o) \o SpinnerWaitEvents(o)
    ELSE SpinnerLaunchEvents(o)

\* a mutant: an elapsed deadline is not reported, the call returns nil
SpinnerReturnIgnoresDeadline(o) ==
  IF ~o.launched THEN LaunchError
  ELSE IF o.wait = WaitOtherError THEN NilExitError
  ELSE NilError

\* The error value returned by Spinner.Run: the launch error (line 65), the
\* nil *exec.ExitError of the failed type assertion (line 80), ctx.Err()
\* (line 87) or nil (line 92). A non-zero exit returns nothing at line 74 and
\* falls through to line 84.
SpinnerReturn(o) ==
  IF ~o.launched THEN LaunchError
  ELSE IF o.wait = WaitOtherError THEN NilExitError
  ELSE IF o.deadline THEN DeadlineExceeded
  ELSE NilError

(* ------------------------------ state ---------------------------------- *)

VARIABLES
  concurrency,  \* options.Concurrency, the gatekeeper's size
  dependsOn,    \* Step.dependsOn: the resolved dependencies of each step
  satisfiable,  \* input: every command starts, exits 0 and beats the timeout
  ctx,          \* the caller's context: "live", or "done" once cancelled
  status,       \* Step.status
  stopFlag,     \* Workflow.stopFlag
  gatekeeper,   \* units held of the semaphore
  joiner,       \* counter of the sync.WaitGroup
  pc,           \* position of Workflow.Run
  toRun,        \* the step nextToRun returned to the loop
  result,       \* what Workflow.Run returned
  task,         \* position of each dispatched goroutine
  outcome,      \* what each step's process did
  events,       \* the events each step's Spinner.Run pushed, in order
  err,          \* what each step's Spinner.Run returned
  lateClaims,   \* history: the steps nextToRun claimed with the flag raised
  document,     \* workflow.Steps as unmarshalled: each step's Name, DependsOn
  linked,       \* the dependsOn list the loader builds for each step
  loadAt,       \* the loader's position: <<idx, index into step.DependsOn>>
  loaded        \* what LoadWorkflowFromBytes returned

vars ==
  <<concurrency, dependsOn, satisfiable, ctx, status, stopFlag, gatekeeper,
    joiner, pc, toRun, result, task, outcome, events, err, lateClaims,
    document, linked, loadAt, loaded>>

loader == <<document, linked, loadAt, loaded>>
config == <<concurrency, dependsOn, satisfiable, loader>>
history == <<lateClaims>>

(* ------------------------ workflow documents --------------------------- *)

\* The dependency structures LoadWorkflowFromBytes is given (lines 158-169
\* resolve each depends_on name to its step; nothing rejects a cycle).
Independent == [s \in Steps |-> {}]
Chain == [s \in Steps |-> IF s = 1 THEN {} ELSE {s - 1}]
ReverseChain == [s \in Steps |-> IF s = NumSteps THEN {} ELSE {s + 1}]
FanOut == [s \in Steps |-> IF s = 1 THEN {} ELSE {1}]
FanIn == [s \in Steps |-> IF s = NumSteps THEN Steps \ {NumSteps} ELSE {}]
Ring == [s \in Steps |-> {(s % NumSteps) + 1}]
SelfDependent == [s \in Steps |-> IF s = 1 THEN {1} ELSE {}]

Workflows ==
  {Independent, Chain, ReverseChain, FanOut, FanIn, Ring, SelfDependent}

\* the steps reachable from s along k or fewer dependency edges, k >= 1
RECURSIVE Reach(_, _, _)
Reach(d, s, k) ==
  IF k <= 1 THEN d[s]
  ELSE LET r == Reach(d, s, k - 1)
       IN r \cup UNION {d[t] : t \in r}

Acyclic(d) == \A s \in Steps : s \notin Reach(d, s, NumSteps)

(* --------------------------- Step (status) ----------------------------- *)

isDone(s) == status[s] \in {Success, Failed}

shouldRun(s) ==
  /\ status[s] = Idle
  /\ \A d \in dependsOn[s] : status[d] = Success

\* Step.Run's verdict on what the runner returned
StepStatusFor(e) == IF e = NilError THEN Success ELSE Failed

(* ----------------------- Workflow: guarded reads ----------------------- *)

\* a mutant: the loop never sees the flag
shouldStopNever == FALSE

shouldStop == stopFlag

\* a mutant: the scan stops at the first step that is done
allDoneAny == \E s \in Steps : isDone(s)

allDone == \A s \in Steps : isDone(s)

\* a mutant: the scan also takes a Failed step again
nextToRunRetriesFailed ==
  IF \E s \in Steps : shouldRun(s) \/ status[s] = Failed
    THEN CHOOSE s \in Steps :
           /\ shouldRun(s) \/ status[s] = Failed
           /\ \A t \in 1..(s - 1) : ~(shouldRun(t) \/ status[t] = Failed)
    ELSE NoStep

\* a mutant: the scan keeps the last step that shouldRun, not the first
nextToRunLastEligible ==
  IF \E s \in Steps : shouldRun(s)
    THEN CHOOSE s \in Steps :
           shouldRun(s) /\ \A t \in (s + 1)..NumSteps : ~shouldRun(t)
    ELSE NoStep

\* a mutant: the scan claims the first Idle step, whatever its dependencies
nextToRunFirstIdle ==
  IF \E s \in Steps : status[s] = Idle
    THEN CHOOSE s \in Steps :
           status[s] = Idle /\ \A t \in 1..(s - 1) : status[t] # Idle
    ELSE NoStep

\* the first step, in declaration order, that shouldRun; NoStep for nil
nextToRun ==
  IF \E s \in Steps : shouldRun(s)
    THEN CHOOSE s \in Steps :
           shouldRun(s) /\ \A t \in 1..(s - 1) : ~shouldRun(t)
    ELSE NoStep

\* a mutant: the semaphore admits without counting
AcquireAdmitsAlways == TRUE

\* gatekeeper.Acquire(ctx, 1) can take a unit
AcquireAdmits == gatekeeper < concurrency

\* gatekeeper.Acquire(ctx, 1) fails with ctx.Err(): the context is done.
\* (With a unit free and the context done, the semaphore package's versions
\* differ on which of the two happens; both are allowed.)
AcquireFails == ctx = "done"

(* ------------------------ LoadWorkflowFromBytes ------------------------ *)

\* step names of the documents under load, and a name no step carries
Names == {"a", "b"}
Ghost == "ghost"

\* longest depends_on list of a document under load
MaxDeps == 2

SeqsUpTo(S, n) == UNION {[1..k -> S] : k \in 0..n}

\* the unmarshalled documents: one to NumSteps steps, names may repeat
Documents ==
  UNION {[1..n -> [Name : Names,
                   DependsOn : SeqsUpTo(Names \cup {Ghost}, MaxDeps)]] :
           n \in 1..NumSteps}

\* a mutant: the lookup falls back to the first step instead of nil
findStepByNameOrFirst(doc, name) ==
  IF \E i \in 1..Len(doc) : doc[i].Name = name
    THEN CHOOSE i \in 1..Len(doc) :
           doc[i].Name = name /\ \A j \in 1..(i - 1) : doc[j].Name # name
    ELSE 1

\* the first step, in slice order, with that name; NoStep for nil
findStepByName(doc, name) ==
  IF \E i \in 1..Len(doc) : doc[i].Name = name
    THEN CHOOSE i \in 1..Len(doc) :
           doc[i].Name = name /\ \A j \in 1..(i - 1) : doc[j].Name # name
    ELSE NoStep

NoWorkflow == "nil"
TheWorkflow == "workflow"
InvalidStepNameError == "invalid step name in runs_after"

\* what LoadWorkflowFromBytes returns: the workflow or nil, and the error;
\* step and ref are the two names the error of line 163 is formatted with
NotLoaded == [workflow |-> NoWorkflow, err |-> NoReturn, step |-> "", ref |-> ""]
LoadOk == [workflow |-> TheWorkflow, err |-> NilError, step |-> "", ref |-> ""]
InvalidStepName(step, ref) ==
  [workflow |-> NoWorkflow, err |-> InvalidStepNameError,
   step |-> step, ref |-> ref]

\* the members of a set of steps in ascending order
RECURSIVE Ascending(_)
Ascending(S) ==
  IF S = {} THEN <<>>
  ELSE LET m == CHOOSE x \in S : \A y \in S : x <= y
       IN <<m>> \o Ascending(S \ {m})

\* a document whose load yields the dependency structure d
DocumentOf(d) ==
  [s \in Steps |->
     [Name |-> ToString(s),
      DependsOn |-> [k \in 1..Cardinality(d[s]) |->
                       ToString(Ascending(d[s])[k])]]]

\* the loader's state once it returned the workflow with structure d
LoadedAs(d) ==
  /\ document = DocumentOf(d)
  /\ linked = [s \in Steps |-> Ascending(d[s])]
  /\ loadAt = <<NumSteps + 1, 1>>
  /\ loaded = LoadOk

(* ------------------------------- Init ---------------------------------- *)

\* the workflow before Run is called
NotRun ==
  /\ ctx = "live"
  /\ status = [s \in Steps |-> Idle]
  /\ stopFlag = FALSE
  /\ gatekeeper = 0
  /\ joiner = 0
  /\ toRun = NoStep
  /\ result = NoReturn
  /\ task = [s \in Steps |-> "none"]
  /\ outcome = [s \in Steps |-> NoOutcome]
  /\ events = [s \in Steps |-> <<>>]
  /\ err = [s \in Steps |-> NoReturn]
  /\ lateClaims = {}

Init ==
  /\ concurrency \in 1..MaxConcurrency
  /\ dependsOn \in Workflows
  /\ satisfiable \in BOOLEAN
  /\ LoadedAs(dependsOn)
  /\ NotRun
  /\ pc = "shouldStop"

(* ------------------- Workflow.Run: the selection loop ------------------ *)

\* a mutant: the loop leaves with the failed step's error
StopResultIsError == ContextError

\* line 198: what Run returns when it sees the stop flag
StopResult == NilError

\* lines 197-199
RunShouldStop ==
  /\ pc = "shouldStop"
  /\ IF shouldStop
       THEN pc' = "returned" /\ result' = StopResult
       ELSE pc' = "allDone" /\ UNCHANGED result
  /\ UNCHANGED <<config, history, ctx, status, stopFlag, gatekeeper, joiner,
                 toRun, task, outcome, events, err>>

\* lines 200-202
RunAllDone ==
  /\ pc = "allDone"
  /\ pc' = IF allDone THEN "wait" ELSE "nextToRun"
  /\ UNCHANGED <<config, history, ctx, status, stopFlag, gatekeeper, joiner,
                 toRun, result, task, outcome, events, err>>

\* lines 204-207: nextToRun marks the step it returns Pending
RunNextToRun ==
  /\ pc = "nextToRun"
  /\ LET step == nextToRun
     IN IF step = NoStep
          THEN pc' = "shouldStop" /\ UNCHANGED <<status, toRun, lateClaims>>
          ELSE /\ status' = [status EXCEPT ![step] = Pending]
               /\ toRun' = step
               /\ pc' = "acquire"
               /\ lateClaims' = IF stopFlag THEN lateClaims \cup {step}
                                            ELSE lateClaims
  /\ UNCHANGED <<config, ctx, stopFlag, gatekeeper, joiner, result,
                 task, outcome, events, err>>

\* lines 209 and 214: a unit is acquired and the goroutine is started
RunAcquire ==
  /\ pc = "acquire"
  /\ AcquireAdmits
  /\ gatekeeper' = gatekeeper + 1
  /\ task' = [task EXCEPT ![toRun] = "spawned"]
  /\ toRun' = NoStep
  /\ pc' = "shouldStop"
  /\ UNCHANGED <<config, history, ctx, status, stopFlag, joiner, result,
                 outcome, events, err>>

\* a mutant: the error of Acquire is dropped and the step is dispatched
RunAcquireFailsDispatches ==
  /\ pc = "acquire"
  /\ AcquireFails
  /\ task' = [task EXCEPT ![toRun] = "spawned"]
  /\ toRun' = NoStep
  /\ pc' = "shouldStop"
  /\ UNCHANGED <<config, history, ctx, status, stopFlag, gatekeeper, joiner,
                 result, outcome, events, err>>

\* a mutant: the failing Acquire keeps a unit of the gatekeeper
RunAcquireFailsTakesUnit ==
  /\ pc = "acquire"
  /\ AcquireFails
  /\ gatekeeper' = gatekeeper + 1
  /\ pc' = "returned"
  /\ result' = ContextError
  /\ UNCHANGED <<config, history, ctx, status, stopFlag, joiner, toRun, task,
                 outcome, events, err>>

\* lines 209-212: Acquire fails and Run returns its error
RunAcquireFails ==
  /\ pc = "acquire"
  /\ AcquireFails
  /\ pc' = "returned"
  /\ result' = ContextError
  /\ UNCHANGED <<config, history, ctx, status, stopFlag, gatekeeper, joiner,
                 toRun, task, outcome, events, err>>

\* lines 231-233: joiner.Wait() returns once the counter is zero
RunWait ==
  /\ pc = "wait"
  /\ joiner = 0
  /\ pc' = "returned"
  /\ result' = NilError
  /\ UNCHANGED <<config, history, ctx, status, stopFlag, gatekeeper, joiner,
                 toRun, task, outcome, events, err>>

\* the caller cancels the context it passed to Run
Cancel ==
  /\ ctx = "live"
  /\ ctx' = "done"
  /\ UNCHANGED <<config, history, status, stopFlag, gatekeeper, joiner, pc,
                 toRun, result, task, outcome, events, err>>
(* ---------------- the goroutine dispatched for one step ---------------- *)

\* line 215: joiner.Add(1), inside the goroutine
TaskAdd(s) ==
  /\ task[s] = "spawned"
  /\ joiner' = joiner + 1
  /\ task' = [task EXCEPT ![s] = "added"]
  /\ UNCHANGED <<config, history, ctx, status, stopFlag, gatekeeper, pc,
                 toRun, result, outcome, events, err>>

\* line 219, Step.Run: the step is marked Running before the runner is called
StepMarkAsRunning(s) ==
  /\ task[s] = "added"
  /\ status' = [status EXCEPT ![s] = Running]
  /\ task' = [task EXCEPT ![s] = "running"]
  /\ UNCHANGED <<config, history, ctx, stopFlag, gatekeeper, joiner, pc,
                 toRun, result, outcome, events, err>>

\* cmd.Start() under exec.CommandContext (line 58): it fails when the context is
\* already done, and never fails for the commands of a satisfiable workflow
CanLaunch(ok) ==
  /\ ctx = "done" => ~ok
  /\ (satisfiable /\ ctx # "done") => ok

\* what a started process may do: anything, except for the commands of a
\* satisfiable workflow whose context was not cancelled
CanEnd(o) ==
  /\ o.launched
  /\ (satisfiable /\ ctx # "done") => o = CleanExit

\* Spinner.Run, lines 53-68: RunRequested, cmd.Start(), RunError and the
\* return of the launch error, or RunStarted
SpinnerStart(s) ==
  /\ task[s] = "running"
  /\ \E ok \in BOOLEAN :
       /\ CanLaunch(ok)
       /\ IF ok
            THEN /\ events' = [events EXCEPT ![s] = SpinnerLaunchEvents(CleanExit)]
                 /\ task' = [task EXCEPT ![s] = "started"]
                 /\ UNCHANGED <<outcome, err>>
            ELSE /\ events' = [events EXCEPT ![s] = SpinnerEvents(LaunchFailure)]
                 /\ outcome' = [outcome EXCEPT ![s] = LaunchFailure]
                 /\ err' = [err EXCEPT ![s] = SpinnerReturn(LaunchFailure)]
                 /\ task' = [task EXCEPT ![s] = "ran"]
  /\ UNCHANGED <<config, history, ctx, status, stopFlag, gatekeeper, joiner,
                 pc, toRun, result>>

\* Spinner.Run, lines 70-92: cmd.Wait() returns, the terminal events are
\* pushed and Run returns
SpinnerWait(s) ==
  /\ task[s] = "started"
  /\ \E o \in Outcomes :
       /\ CanEnd(o)
       /\ outcome' = [outcome EXCEPT ![s] = o]
       /\ events' = [events EXCEPT ![s] = @ \o SpinnerWaitEvents(o)]
       /\ err' = [err EXCEPT ![s] = SpinnerReturn(o)]
  /\ task' = [task EXCEPT ![s] = "ran"]
  /\ UNCHANGED <<config, history, ctx, status, stopFlag, gatekeeper, joiner,
                 pc, toRun, result>>

\* a mutant: the goroutine calls stop() only for a deadline error
TaskFailsOnDeadlineOnly(e) == e = DeadlineExceeded

\* line 220: err != nil
TaskFails(e) == e # NilError

\* line 219, Step.Run returns: the step is marked Success or Failed from
\* what the runner returned, and the same error goes to the goroutine
StepFinish(s) ==
  /\ task[s] = "ran"
  /\ status' = [status EXCEPT ![s] = StepStatusFor(err[s])]
  /\ task' = [task EXCEPT ![s] = IF TaskFails(err[s]) THEN "failed" ELSE "release"]
  /\ UNCHANGED <<config, history, ctx, stopFlag, gatekeeper, joiner, pc,
                 toRun, result, outcome, events, err>>

\* a mutant: stop() leaves the flag as it is
TaskStopLeavesFlag(s) ==
  /\ task[s] = "failed"
  /\ task' = [task EXCEPT ![s] = "release"]
  /\ UNCHANGED <<config, history, ctx, status, stopFlag, gatekeeper, joiner,
                 pc, toRun, result, outcome, events, err>>

\* lines 220-224 and 275-280: the error is logged and stop() sets the flag
TaskStop(s) ==
  /\ task[s] = "failed"
  /\ stopFlag' = TRUE
  /\ task' = [task EXCEPT ![s] = "release"]
  /\ UNCHANGED <<config, history, ctx, status, gatekeeper, joiner, pc, toRun, result,
                 outcome, events, err>>

\* a mutant: the unit is released twice
TaskReleaseTwice(s) ==
  /\ task[s] = "release"
  /\ gatekeeper' = gatekeeper - 2
  /\ task' = [task EXCEPT ![s] = "released"]
  /\ UNCHANGED <<config, history, ctx, status, stopFlag, joiner, pc, toRun,
                 result, outcome, events, err>>

\* line 226: gatekeeper.Release(1)
TaskRelease(s) ==
  /\ task[s] = "release"
  /\ gatekeeper' = gatekeeper - 1
  /\ task' = [task EXCEPT ![s] = "released"]
  /\ UNCHANGED <<config, history, ctx, status, stopFlag, joiner, pc, toRun,
                 result, outcome, events, err>>

\* line 216: the deferred joiner.Done()
TaskDone(s) ==
  /\ task[s] = "released"
  /\ joiner' = joiner - 1
  /\ task' = [task EXCEPT ![s] = "done"]
  /\ UNCHANGED <<config, history, ctx, status, stopFlag, gatekeeper, pc,
                 toRun, result, outcome, events, err>>

Task(s) ==
  \/ TaskAdd(s)
  \/ StepMarkAsRunning(s)
  \/ SpinnerStart(s)
  \/ SpinnerWait(s)
  \/ StepFinish(s)
  \/ TaskStop(s)
  \/ TaskRelease(s)
  \/ TaskDone(s)

Run ==
  \/ RunShouldStop
  \/ RunAllDone
  \/ RunNextToRun
  \/ RunAcquire
  \/ RunAcquireFails
  \/ RunWait

(* --------------------------- specifications ---------------------------- *)

Next ==
  \/ RunShouldStop
  \/ RunAllDone
  \/ RunNextToRun
  \/ RunAcquire
  \/ RunAcquireFails
  \/ RunWait
  \/ Cancel
  \/ \E s \in Steps : TaskAdd(s)
  \/ \E s \in Steps : StepMarkAsRunning(s)
  \/ \E s \in Steps : SpinnerStart(s)
  \/ \E s \in Steps : SpinnerWait(s)
  \/ \E s \in Steps : StepFinish(s)
  \/ \E s \in Steps : TaskStop(s)
  \/ \E s \in Steps : TaskRelease(s)
  \/ \E s \in Steps : TaskDone(s)

Spec == Init /\ [][Next]_vars

\* The Go scheduler runs every runnable goroutine: the loop of Workflow.Run
\* and each dispatched goroutine keep taking steps while they can. A started
\* process always ends (the timeout of line 55 kills it at the latest).
Fairness ==
  /\ WF_vars(Run)
  /\ \A s \in Steps : WF_vars(Task(s))

FairSpec == Init /\ [][Next]_vars /\ Fairness

(* ------------------------------ typing --------------------------------- *)

TypeOK ==
  /\ concurrency \in 1..MaxConcurrency
  /\ dependsOn \in Workflows
  /\ status \in [Steps -> Statuses]
  /\ stopFlag \in BOOLEAN
  /\ gatekeeper \in 0..NumSteps
  /\ joiner \in 0..NumSteps
  /\ toRun \in Steps \cup {NoStep}
  /\ result \in {NoReturn, NilError, ContextError}
  /\ \A s \in Steps : outcome[s] \in Outcomes \cup {NoOutcome}
(* ------------------------- derived observations ------------------------ *)

\* Workflow.Run has returned to its caller
Returned == pc = "returned"

\* the goroutine of s is past its call of Step.Run and of stop()
PastStop(s) == task[s] \in {"release", "released", "done"}

\* the goroutine of s was started and has not finished
Executing(s) == task[s] \notin {"none", "done"}

NumRunning == Cardinality({s \in Steps : status[s] = Running})

\* e is a prefix of f
IsPrefix(e, f) == Len(e) <= Len(f) /\ SubSeq(f, 1, Len(e)) = e

\* the event sequences a run may push
AllowedEventSequences ==
  {<<EventRunRequested, EventRunStarted, t>> : t \in TerminalEvents}
    \cup {<<EventRunRequested, EventRunError>>}

(* -------------------------------- C1 ----------------------------------- *)

\* C1: in every reachable state of the concurrent Workflow.Run, at most
\* `concurrency` steps have status Running.
C1_RunningAtMostN == NumRunning <= concurrency

\* two steps are Running at once under a concurrency of two
C1_Witness == concurrency = 2 /\ NumRunning = 2

(* -------------------------------- C2 ----------------------------------- *)

\* C2: a step is Pending or Running only while every step it depends on is
\* Success; none of its dependencies is Idle, Pending, Running or Failed.
C2_DependenciesFirst ==
  \A s \in Steps :
    status[s] \in {Pending, Running} =>
      \A d \in dependsOn[s] : status[d] = Success

\* a step that has a dependency is Running
C2_Witness ==
  \E s \in Steps : dependsOn[s] # {} /\ status[s] = Running

(* -------------------------------- C3 ----------------------------------- *)

\* the workflow is acyclic and every command succeeds
FullySatisfiable == satisfiable /\ Acyclic(dependsOn)

\* the caller never cancels the context
NeverCancelled == [](ctx # "done")

\* C3: for an acyclic, fully satisfiable workflow whose context is never
\* cancelled, Run terminates under fair scheduling, and when it has returned
\* every step is Success or Failed.
C3_Terminates ==
  (FullySatisfiable /\ NeverCancelled) =>
    /\ <>Returned
    /\ [](Returned => \A s \in Steps : isDone(s))

\* Run has returned from a satisfiable chain with every step Success
C3_Witness ==
  /\ FullySatisfiable
  /\ ctx # "done"
  /\ dependsOn = Chain
  /\ Returned
  /\ \A s \in Steps : status[s] = Success

(* -------------------------------- C4 ----------------------------------- *)

\* C4 as stated: once the stop flag is raised, no step that was Idle at that
\* moment is claimed by nextToRun.
C4_NoClaimAfterStop == lateClaims = {}

\* C4 as amended: after stop() has raised the flag, nextToRun claims at most
\* one step that was Idle at that moment: the loop iteration whose
\* shouldStop() ran before the flag was raised may still claim and dispatch a
\* step; the loop then returns at its next shouldStop() and scans no more.
C4_AtMostOneLateClaim ==
  /\ Cardinality(lateClaims) <= 1
  /\ lateClaims # {} => pc \in {"acquire", "shouldStop", "returned"}

\* a step that was Idle when the flag was raised has been claimed and run
C4_Witness ==
  \E s \in lateClaims : stopFlag /\ status[s] = Running

(* -------------------------------- C5 ----------------------------------- *)

\* C5: Run does not return nil to its caller while a goroutine it dispatched
\* is still executing.
C5_ReturnsAfterTasks ==
  (Returned /\ result = NilError) => \A s \in Steps : ~Executing(s)

(* -------------------------------- C6 ----------------------------------- *)

\* C6: the events pushed by one call of Spinner.Run are a prefix of
\* RunRequested, RunStarted, T with T one terminal event, or of
\* RunRequested, RunError; at most one terminal event is pushed.
C6_EventSequence ==
  \A s \in Steps :
    \E f \in AllowedEventSequences : IsPrefix(events[s], f)

(* -------------------------------- C7 ----------------------------------- *)

\* C7: a dispatched step ends in Success exactly when its process exited with
\* status 0 and no timeout occurred, and in Failed otherwise.
C7_SuccessIffCleanExit ==
  \A s \in Steps :
    isDone(s) => (status[s] = Success <=> outcome[s] = CleanExit)

(* -------------------------------- C8 ----------------------------------- *)

\* C8: when a step's process exits non-zero or cannot be started, the stop
\* flag is raised before the step's goroutine finishes.
C8_FailureRaisesStop ==
  \A s \in Steps :
    (task[s] = "done"
       /\ (outcome[s] = LaunchFailure \/ outcome[s].wait = WaitExitError))
      => stopFlag

(* -------------------------------- C9 ----------------------------------- *)

\* no step's runner met a wait error
NoWaitError == \A s \in Steps : outcome[s].wait # WaitOtherError

\* C9: in a run where Acquire does not fail (the context is not done) and no
\* wait error occurs, Run returns nil, also when steps ended Failed.
C9_FailureReturnsNil ==
  (Returned /\ ctx # "done" /\ NoWaitError) => result = NilError

\* Run has returned nil although a step timed out and is Failed
C9_Witness ==
  /\ Returned
  /\ ctx # "done"
  /\ NoWaitError
  /\ result = NilError
  /\ \E s \in Steps : status[s] = Failed /\ outcome[s].deadline

(* -------------------------------- C10 ---------------------------------- *)

\* the runner of s returned a wait error, its goroutine is past stop(), and
\* no other step's runner returned an error
OnlyWaitError(s) ==
  /\ outcome[s].wait = WaitOtherError
  /\ PastStop(s)
  /\ \A t \in Steps \ {s} : err[t] \in {NoReturn, NilError}

\* C10 as stated: a wait error of a step's runner leaves Workflow.Run as a
\* non-nil error.
C10_WaitErrorPropagates ==
  (Returned /\ ctx # "done" /\ \E s \in Steps : OnlyWaitError(s))
    => result # NilError

\* C10 as amended: a wait error of a step's runner does not leave
\* Workflow.Run: the step's goroutine raises the stop flag, and Run returns
\* nil unless Acquire failed on a done context.
C10_WaitErrorStops ==
  \A s \in Steps :
    (outcome[s].wait = WaitOtherError /\ PastStop(s)) =>
      /\ stopFlag
      /\ Returned => (result = NilError \/ ctx = "done")

\* Run has returned nil after the only failure, a wait error, raised the flag
C10_Witness ==
  /\ Returned
  /\ result = NilError
  /\ \E s \in Steps : OnlyWaitError(s) /\ status[s] = Failed

(* -------------------------------- C11 ---------------------------------- *)

\* C11: Run leaves its Acquire in one of two ways. Either Acquire took one
\* unit and the claimed step is dispatched, or Acquire failed: then the
\* caller's context is done, Run returns the context's error, the gatekeeper
\* holds exactly the units it held before (the failed Acquire took none) and
\* the claimed step is not dispatched. Once Run has returned that error no
\* step is dispatched and no unit is taken; the goroutines already running
\* go on and release theirs.
C11_CancelledAcquireAborts ==
  [][/\ (pc = "acquire" /\ pc' # "acquire") =>
          \/ /\ pc' = "shouldStop"
             /\ gatekeeper' = gatekeeper + 1
             /\ task'[toRun] = "spawned"
          \/ /\ pc' = "returned"
             /\ ctx = "done"
             /\ result' = ContextError
             /\ gatekeeper' = gatekeeper
             /\ task' = task
     /\ (pc' = "returned" /\ result' = ContextError /\ ~Returned) =>
          /\ pc = "acquire"
          /\ gatekeeper' = gatekeeper
     /\ (Returned /\ result = ContextError) =>
          /\ gatekeeper' <= gatekeeper
          /\ \A s \in Steps : task[s] = "none" => task'[s] = "none"]_vars

\* Acquire was blocked on a full gatekeeper when the context was cancelled:
\* Run has returned the error and the claimed step was never dispatched
C11_Witness ==
  /\ Returned
  /\ result = ContextError
  /\ gatekeeper = concurrency
  /\ toRun # NoStep
  /\ status[toRun] = Pending
  /\ task[toRun] = "none"

(* -------------------------------- C12 ---------------------------------- *)

\* the moves a status may make
ForwardMoves ==
  {<<Idle, Pending>>, <<Pending, Running>>, <<Running, Success>>,
   <<Running, Failed>>}

\* how many times e occurs in the sequence q
Occurrences(q, e) == Cardinality({i \in 1..Len(q) : q[i] = e})

\* C12: a step's status only moves Idle, Pending, Running, then Success or
\* Failed; a step is claimed at most once, its goroutine is started at most
\* once and its command is requested at most once.
C12_StatusMovesForward ==
  [][\A s \in Steps :
       /\ status'[s] # status[s] => <<status[s], status'[s]>> \in ForwardMoves
       /\ task'[s] = "spawned" => task[s] \in {"none", "spawned"}
       /\ Occurrences(events'[s], EventRunRequested) <= 1]_vars

\* a step has gone all the way to Failed and its goroutine has finished
C12_Witness ==
  \E s \in Steps :
    /\ status[s] = Failed
    /\ task[s] = "done"
    /\ Occurrences(events[s], EventRunRequested) = 1

(* -------------------------------- C13 ---------------------------------- *)

\* the goroutines that hold a unit: dispatched and not yet past Release
Holders ==
  {s \in Steps :
     task[s] \in {"spawned", "added", "running", "started", "ran", "failed",
                  "release"}}

\* C13: the gatekeeper's count stays between 0 and the concurrency, and is
\* the number of dispatched goroutines that have not released their unit.
C13_GatekeeperCount ==
  /\ gatekeeper >= 0
  /\ gatekeeper <= concurrency
  /\ gatekeeper = Cardinality(Holders)

\* the gatekeeper is full with two holders, one of them about to release
C13_Witness ==
  /\ concurrency = 2
  /\ gatekeeper = 2
  /\ \E s \in Steps : task[s] = "release"

(* -------------------------------- C14 ---------------------------------- *)

\* the steps that are Idle with every dependency Success
Eligible == {s \in Steps : shouldRun(s)}

\* C14: nextToRun returns the eligible step of lowest declaration index and
\* marks that step, and no other, Pending; with no eligible step it returns
\* none and changes no status.
C14_FirstEligible ==
  [][(pc = "nextToRun" /\ pc' # "nextToRun") =>
       IF Eligible = {}
         THEN status' = status /\ toRun' = NoStep /\ pc' = "shouldStop"
         ELSE /\ toRun' \in Eligible
              /\ \A t \in Eligible : toRun' <= t
              /\ status' = [status EXCEPT ![toRun'] = Pending]]_vars

\* the first of two eligible steps was claimed and the second left Idle
C14_Witness ==
  /\ pc = "acquire"
  /\ toRun = 1
  /\ status[1] = Pending
  /\ \E t \in Steps : t > 1 /\ shouldRun(t)

(* ----------------- LoadWorkflowFromBytes: the link loop ---------------- *)

run == <<ctx, status, stopFlag, gatekeeper, joiner, pc, toRun, result, task,
         outcome, events, err, lateClaims>>

\* the state after line 156: a document unmarshalled, nothing linked yet
LoadInit ==
  /\ document \in Documents
  /\ linked = [i \in 1..Len(document) |-> <<>>]
  /\ loadAt = <<1, 1>>
  /\ loaded = NotLoaded
  /\ concurrency = MaxConcurrency
  /\ dependsOn = Independent
  /\ satisfiable = TRUE
  /\ NotRun
  /\ pc = "shouldStop"

\* the loops of lines 158 and 160 stand at a depends_on entry
AtDependency ==
  /\ loaded = NotLoaded
  /\ loadAt[1] <= Len(document)
  /\ loadAt[2] <= Len(document[loadAt[1]].DependsOn)

priorStepName == document[loadAt[1]].DependsOn[loadAt[2]]

\* lines 161-166: the name resolves, the step is appended to dependsOn
LoadLink ==
  /\ AtDependency
  /\ findStepByName(document, priorStepName) # NoStep
  /\ linked' = [linked EXCEPT ![loadAt[1]] =
                  Append(@, findStepByName(document, priorStepName))]
  /\ loadAt' = <<loadAt[1], loadAt[2] + 1>>
  /\ UNCHANGED <<concurrency, dependsOn, satisfiable, document, loaded, run>>

\* lines 161-164: the name resolves to nil, the load returns the error
LoadReject ==
  /\ AtDependency
  /\ findStepByName(document, priorStepName) = NoStep
  /\ loaded' = InvalidStepName(document[loadAt[1]].Name, priorStepName)
  /\ UNCHANGED <<concurrency, dependsOn, satisfiable, document, linked,
                 loadAt, run>>

\* line 158: the inner loop is over, the outer loop takes the next step
LoadNextStep ==
  /\ loaded = NotLoaded
  /\ loadAt[1] <= Len(document)
  /\ loadAt[2] > Len(document[loadAt[1]].DependsOn)
  /\ loadAt' = <<loadAt[1] + 1, 1>>
  /\ UNCHANGED <<concurrency, dependsOn, satisfiable, document, linked,
                 loaded, run>>

\* line 171: every step is linked, the load returns the workflow
LoadReturn ==
  /\ loaded = NotLoaded
  /\ loadAt[1] > Len(document)
  /\ loaded' = LoadOk
  /\ UNCHANGED <<concurrency, dependsOn, satisfiable, document, linked,
                 loadAt, run>>

LoadNext ==
  \/ LoadLink
  \/ LoadReject
  \/ LoadNextStep
  \/ LoadReturn

LoadSpec == LoadInit /\ [][LoadNext]_vars

(* -------------------------------- C15 ---------------------------------- *)

\* the depends_on entries of a document: <<step index, entry index>>
Entries(doc) ==
  {e \in (1..Len(doc)) \X (1..MaxDeps) : e[2] <= Len(doc[e[1]].DependsOn)}

\* the entry names no step of the document
Missing(doc, e) ==
  \A i \in 1..Len(doc) : doc[i].Name # doc[e[1]].DependsOn[e[2]]

\* C15: LoadWorkflowFromBytes returns a workflow only if every depends_on
\* entry of every step names a step of the document; otherwise it returns no
\* workflow and an error naming a dependent step and its missing reference;
\* on success each step's dependsOn list has one step per depends_on entry,
\* carrying the entry's name, in the entries' order.
C15_LoadValidates ==
  loaded # NotLoaded =>
    /\ loaded.err = NilError <=> \A e \in Entries(document) : ~Missing(document, e)
    /\ loaded.err = NilError =>
         /\ loaded.workflow = TheWorkflow
         /\ \A i \in 1..Len(document) :
              /\ Len(linked[i]) = Len(document[i].DependsOn)
              /\ \A k \in 1..Len(linked[i]) :
                   /\ linked[i][k] \in 1..Len(document)
                   /\ document[linked[i][k]].Name = document[i].DependsOn[k]
    /\ loaded.err # NilError =>
         /\ loaded.workflow = NoWorkflow
         /\ \E e \in Entries(document) :
              /\ Missing(document, e)
              /\ loaded.err = InvalidStepNameError
              /\ loaded.step = document[e[1]].Name
              /\ loaded.ref = document[e[1]].DependsOn[e[2]]

\* a load that succeeded with a two-entry depends_on of different names, and
\* the loader is the one that linked them
C15_Witness ==
  /\ loaded # NotLoaded
  /\ loaded.err = NilError
  /\ loadAt[1] = Len(document) + 1
  /\ \E i \in 1..Len(document) :
       /\ Len(document[i].DependsOn) = 2
       /\ document[i].DependsOn[1] # document[i].DependsOn[2]
       /\ linked[i][1] # linked[i][2]

\* a load rejected at a later step's missing reference
C15_Rejected ==
  /\ loaded # NotLoaded
  /\ loaded = InvalidStepName("b", Ghost)
  /\ loadAt[1] > 1

(* -------------------------------- C16 ---------------------------------- *)

\* C16: for every dependency edge (B declares A), whenever B's run has pushed
\* an event (RunRequested is its first), A's RunSuccess is already among the
\* events of A, whatever the concurrency.
C16_DependencySucceededFirst ==
  \A b \in Steps : \A a \in dependsOn[b] :
    events[b] # <<>> => Occurrences(events[a], EventRunSuccess) >= 1

\* with two units of concurrency, a dependent step was requested and started
C16_Witness ==
  /\ concurrency = MaxConcurrency
  /\ \E b \in Steps : \E a \in dependsOn[b] :
       /\ a # b
       /\ Len(events[b]) >= 2
       /\ events[b][1] = EventRunRequested
       /\ events[b][2] = EventRunStarted

(* -------------------------------- C17 ---------------------------------- *)

\* Spinner.Run has returned for step s
RunnerReturned(s) == err[s] # NoReturn

\* C17: whenever the deadline has passed when cmd.Wait() returns, Spinner.Run
\* pushes RunTimeout, returns the deadline-exceeded error and never pushes
\* RunSuccess.
C17_TimeoutTakesPrecedence ==
  \A s \in Steps :
    (RunnerReturned(s) /\ outcome[s].launched /\ outcome[s].deadline) =>
      /\ Occurrences(events[s], EventRunTimeout) = 1
      /\ Occurrences(events[s], EventRunSuccess) = 0
      /\ err[s] = DeadlineExceeded

(* -------------------------------- C18 ---------------------------------- *)

\* C18: when cmd.Wait() fails with an error that is not a non-zero exit,
\* Spinner.Run pushes RunWaitError as its last event and returns the error
\* cmd.Wait() produced.
C18_WaitErrorReturned ==
  \A s \in Steps :
    (RunnerReturned(s) /\ outcome[s].wait = WaitOtherError) =>
      /\ events[s][Len(events[s])] = EventRunWaitError
      /\ err[s] = WaitFailure

(* -------------------------------- C19 ---------------------------------- *)

\* C19: under fair scheduling, once a step is Failed, Workflow.Run returns.
C19_FailureLeadsToReturn ==
  (\E s \in Steps : status[s] = Failed) ~> Returned

\* Run has returned although a step that depends on the failed one is still
\* Idle and can never run
C19_Witness ==
  /\ Returned
  /\ \E a \in Steps : \E b \in Steps \ {a} :
       /\ status[a] = Failed
       /\ a \in dependsOn[b]
       /\ status[b] = Idle

(* ------------------ Workflow.Run, the sequential variant --------------- *)

\* most spaces in a step's command string
MaxSpaces == 1

\* len(strings.Split(command, " ")) for a command with that many spaces
SplitParts(spaces) == spaces + 1

\* NewSpinner, lines 38-41: the error it returns, nil if none
NewSpinner(spaces) ==
  IF SplitParts(spaces) < 1 THEN BadCommand ELSE NilError

\* a mutant: the loop goes on whatever the runner returned
SeqRunFailsNever(e) == FALSE

\* line 370: err != nil
SeqRunFails(e) == e # NilError

\* the sequential workflow before Run is called; its steps are plain command
\* strings, the dependencies declared in the document play no part
SeqInit ==
  /\ concurrency = 1
  /\ dependsOn \in Workflows
  /\ satisfiable \in BOOLEAN
  /\ LoadedAs(dependsOn)
  /\ NotRun
  /\ pc = "start"

\* lines 357-361: NotificationManager.Start; on its error the process exits
SeqStart ==
  /\ pc = "start"
  /\ \E ok \in BOOLEAN :
       IF ok THEN pc' = "newSpinner" /\ toRun' = 1
             ELSE pc' = "exited" /\ toRun' = toRun
  /\ UNCHANGED <<config, history, ctx, status, stopFlag, gatekeeper, joiner,
                 result, task, outcome, events, err>>

\* lines 364-367: NewSpinner for the step at hand, its error is returned
SeqNewSpinner ==
  /\ pc = "newSpinner"
  /\ \E spaces \in 0..MaxSpaces :
       IF NewSpinner(spaces) # NilError
         THEN /\ result' = NewSpinner(spaces)
              /\ pc' = "returned"
              /\ task' = task
         ELSE /\ task' = [task EXCEPT ![toRun] = "running"]
              /\ pc' = "spinnerRun"
              /\ result' = result
  /\ UNCHANGED <<config, history, ctx, status, stopFlag, gatekeeper, joiner,
                 toRun, outcome, events, err>>

\* lines 369-375: spinner.Run returned; its error is returned, or the loop
\* takes the next step, or Run returns nil after the last one
SeqSpinnerReturns ==
  /\ pc = "spinnerRun"
  /\ task[toRun] = "ran"
  /\ task' = [task EXCEPT ![toRun] = "done"]
  /\ IF SeqRunFails(err[toRun])
       THEN result' = err[toRun] /\ pc' = "returned" /\ toRun' = toRun
       ELSE IF toRun = NumSteps
         THEN result' = NilError /\ pc' = "returned" /\ toRun' = toRun
         ELSE result' = result /\ pc' = "newSpinner" /\ toRun' = toRun + 1
  /\ UNCHANGED <<config, history, ctx, status, stopFlag, gatekeeper, joiner,
                 outcome, events, err>>

SeqNext ==
  \/ SeqStart
  \/ SeqNewSpinner
  \/ \E s \in Steps : SpinnerStart(s)
  \/ \E s \in Steps : SpinnerWait(s)
  \/ SeqSpinnerReturns
  \/ Cancel

SeqSpec == SeqInit /\ [][SeqNext]_vars

(* -------------------------------- C20 ---------------------------------- *)

\* the step's spinner was created
SeqStarted(s) == task[s] # "none"

\* C20: the sequential Run has at most one step in hand; a step is started
\* only when every step declared before it has run and returned nil, whatever
\* the declared dependencies; Run returns the first error of a spinner's
\* creation or run, and no later step is started.
C20_SequentialInOrder ==
  /\ Cardinality({s \in Steps : task[s] \in {"running", "started", "ran"}}) <= 1
  /\ \A s \in Steps :
       (SeqStarted(s) \/ events[s] # <<>>) =>
         \A t \in 1..(s - 1) : task[t] = "done" /\ err[t] = NilError
  /\ Returned =>
       \/ result = NilError /\ \A s \in Steps : err[s] = NilError
       \/ /\ result # NilError
          /\ toRun \in Steps
          /\ result = IF SeqStarted(toRun) THEN err[toRun] ELSE BadCommand
          /\ \A t \in (toRun + 1)..NumSteps : ~SeqStarted(t) /\ events[t] = <<>>

\* the first step declares the second as its dependency, yet it ran first and
\* returned nil; the second then ran, failed, and Run returned its error
C20_Witness ==
  /\ Returned
  /\ 2 \in dependsOn[1]
  /\ err[1] = NilError
  /\ result = err[2]
  /\ result \notin {NilError, NoReturn}

\* Run returned the first step's error and the second step was never started
C20_StoppedAtFirstError ==
  /\ Returned
  /\ result = err[1]
  /\ result = DeadlineExceeded
  /\ ~SeqStarted(2)

====
